---- MODULE Spec2Model ----
(***************************************************************************)
(* inp2feap: conversion of an Abaqus .inp mesh into a FEAP input deck.     *)
(*                                                                         *)
(* Three parts of src/src/inp2feap.py are modelled:                        *)
(*   - InpFileParser.Parse, the line-by-line reader of the .inp file       *)
(*     (specification SpecParse, one step per physical line);              *)
(*   - ConfigFileParser.Build, the pipeline that parses the configuration, *)
(*     reads the mesh, applies the transformer passes and writes the deck  *)
(*     (SpecBuild: the whole pipeline; SpecConfig: the configuration;      *)
(*     SpecElsets: the element set passes; SpecCenter: the centering pass; *)
(*     SpecDeck: the written deck; one step per pass or configured edit);  *)
(*   - Node, its construction and its printed form (SpecNode).             *)
(*                                                                         *)
(* Raw text tokens are strings; int() is modelled by IntOf/IsInt, so a     *)
(* token that is not a number makes the conversion fail as in the source.  *)
(***************************************************************************)
EXTENDS Integers, Sequences, FiniteSets, TLC

VARIABLES
    \* ---- InpFileParser.Parse ----
    readMode,       \* current section of the reader
    nodesPerElem,   \* InpFileParser.nodesPerElem (0 stands for None)
    numNodes,       \* running nodes-per-element value (-1: not yet known)
    nDim,           \* running spatial dimension
    elemInput,      \* pending integers of the fixed-width element reconstruction
    ignoredLines,   \* 1-based numbers of the lines ignored in UNKNOWN mode
    lineNumber,     \* number of physical lines read so far
    line,           \* the line read last
    pstate,         \* "reading", "returned" (mesh returned) or "raised" (exception)
    elemStream,     \* history: integers read on the data lines of the current element section
    sectionBase,    \* history: number of elements present when the current element section began
    \* ---- the mesh (AbaqusMesh), built by Parse and transformed by Build ----
    nodes, elems, nsets, elsets,
    \* ---- diagnostics printed so far ("Warning: ...") ----
    warnings,
    \* ---- ConfigFileParser.Build ----
    pc,             \* position in Build
    conf,           \* the configuration document and the files it names
    conf_elsets,    \* configured elset edits
    conf_nsets,     \* configured nset edits
    editIdx,        \* number of configured edits already handled in the running binding pass
    customInputs,   \* ConfigFileParser.customInputs, kept across the Build calls of one parser
    output,         \* the lines written to the output file so far
    confFile,       \* the configuration file: the JSON document it holds
    inpFile,        \* the .inp file: what InpFileParser.Parse makes of it
    declared,       \* history: the custom input blocks in the order they were appended
    outputOpened,   \* the output file has been opened for writing (created/truncated)
    origElems,      \* history: the element collection as it was before the duplication pass
    steps,          \* history: the steps of Build completed so far, in order
    exitCode,       \* the exit status of the command-line run: <<>> while it runs
    \* ---- Node on its own, as test.py exercises it ----
    testNodeArgs,   \* the argument list given to Node(*args)
    testNodes,      \* the Node objects constructed
    testResult,     \* "none", "constructed" or "ValueError"
    testStr         \* the lines str(node) returned

parseVars == <<readMode, nodesPerElem, numNodes, nDim, elemInput, ignoredLines,
               lineNumber, line, pstate, elemStream, sectionBase>>
meshVars  == <<nodes, elems, nsets, elsets>>
files     == <<confFile, inpFile>>
buildVars == <<pc, conf, conf_elsets, conf_nsets, editIdx, customInputs, output, files,
               declared, outputOpened, origElems, steps, exitCode>>
testVars  == <<testNodeArgs, testNodes, testResult, testStr>>
vars      == <<parseVars, meshVars, warnings, buildVars, testVars>>

-----------------------------------------------------------------------------
(* Bounds of the model *)

MaxLines == 4       \* physical lines of the .inp file
MaxNpe   == 2       \* largest pre-declared nodesPerElem

-----------------------------------------------------------------------------
(* Generic helpers *)

Last(s) == s[Len(s)]

\* a printed "Warning: ..." line: what it reports and the set name it cites
Warning(kind, name) == [kind |-> kind, name |-> name]

\* int(s): the tokens Python's int() accepts, and their values
IsInt(s) == s \in {"-2", "-1", "0", "1", "2", "3", "4", "5", "15", "26", "50"}

IntOf(s) ==
    CASE s = "-2" -> -2  [] s = "-1" -> -1 [] s = "0" -> 0 [] s = "1" -> 1
      [] s = "2"  -> 2   [] s = "3"  -> 3  [] s = "4" -> 4 [] s = "5" -> 5
      [] s = "15" -> 15  [] s = "26" -> 26 [] s = "50" -> 50

\* s.strip() on a single token: a blank token becomes the empty string
Strip(s) == IF s = " " THEN "" ELSE s

AllInt(toks) == \A i \in 1..Len(toks) : IsInt(toks[i])

\* float(s): the tokens Python's float() accepts; "1e1" is one int() rejects
IsFloat(s) == IsInt(s) \/ s = "1e1"

\* a coordinate is held as a whole number of units of 10^-TickDigits, one digit finer
\* than the output format prints, and a coordinate token names that number of units
TickDigits == 9

FloatOf(s) == IF s = "1e1" THEN 10 ELSE IntOf(s)

Abs(n) == IF n < 0 THEN 0 - n ELSE n

Ints(toks) == [i \in 1..Len(toks) |-> IntOf(toks[i])]

-----------------------------------------------------------------------------
(* Records: Node, Element, NodeSet, ElSet *)

\* NodeOk accepting every argument list of three or more
NodeOk_AnyCount(args) ==
    /\ Len(args) >= 3
    /\ IsInt(args[1])
    /\ \A i \in 2..Len(args) : IsFloat(args[i])

\* Node(*args) succeeds
NodeOk(args) ==
    /\ Len(args) \in {3, 4}
    /\ IsInt(args[1])
    /\ \A i \in 2..Len(args) : IsFloat(args[i])

\* Node(*args): a 2-D node has no z attribute
Node(args) ==
    IF Len(args) = 3
    THEN [id |-> IntOf(args[1]), nDim |-> 2, x |-> FloatOf(args[2]), y |-> FloatOf(args[3])]
    ELSE [id |-> IntOf(args[1]), nDim |-> 3, x |-> FloatOf(args[2]), y |-> FloatOf(args[3]),
          z |-> FloatOf(args[4])]

NonEmptyTok(s) == s # ""

\* Element(*args) on text tokens succeeds
ElementOk(args) ==
    /\ Len(args) >= 2
    /\ IsInt(args[1])
    /\ \A i \in 2..Len(args) : args[i] # "" => IsInt(args[i])

\* Element(*args) on text tokens: empty tokens are counted in numNodes but not stored
Element(args) ==
    [id       |-> IntOf(args[1]),
     numNodes |-> Len(args) - 1,
     nodes    |-> Ints(SelectSeq(Tail(args), NonEmptyTok)),
     matn     |-> 1,
     duplicate |-> <<>>]

\* Element(*args) on integers succeeds
ElementIntsOk(args) == Len(args) >= 2

\* Element(*args) on integers
ElementInts(args) ==
    [id       |-> args[1],
     numNodes |-> Len(args) - 1,
     nodes    |-> Tail(args),
     matn     |-> 1,
     duplicate |-> <<>>]

NodeSet == [nodes |-> <<>>, name |-> "Unnamed nset", setBoun |-> "", setLoad |-> ""]

ElSet == [elems |-> <<>>, name |-> "Unnamed elset", setMat |-> 1, generate |-> FALSE,
          duplicate |-> <<>>]

\* CustomInput(block, pos, cards)
CustomInput(block, pos, cards) == [block |-> block, pos |-> pos, cards |-> cards]

-----------------------------------------------------------------------------
(* Text written to the output file: __str__ of Node, Element, NodeSet, CustomInput *)

\* decimals printed by '%14.8f'
Decimals == 8

RECURSIVE Digits(_)
\* the decimal digits of a natural number, most significant first
Digits(n) == IF n < 10 THEN <<n>> ELSE Append(Digits(n \div 10), n % 10)

RECURSIVE FracDigits(_, _)
\* the last k decimal digits of n, with leading zeros
FracDigits(n, k) == IF k = 0 THEN <<>> ELSE Append(FracDigits(n \div 10, k - 1), n % 10)

RECURSIVE ValueOf(_)
\* the natural number a digit string denotes
ValueOf(ds) == IF ds = <<>> THEN 0 ELSE 10 * ValueOf(SubSeq(ds, 1, Len(ds) - 1)) + Last(ds)

\* a number as printed: sign, digits before the point, digits after it
\* '%d' % n
Format_d(n) == [neg |-> n < 0, int |-> Digits(Abs(n)), frac |-> <<>>]

\* a count of units rounded to a multiple of q units, in multiples of q (ties to even)
RoundTo(a, q) ==
    LET lo == a \div q
        rem == a % q
    IN IF 2 * rem > q \/ (2 * rem = q /\ lo % 2 = 1) THEN lo + 1 ELSE lo

\* Format_f printing one decimal less
Format_f_Short(v) ==
    LET r == RoundTo(Abs(v), 10 ^ (TickDigits - Decimals + 1))
    IN [neg |-> v < 0, int |-> Digits(r \div 10 ^ (Decimals - 1)),
        frac |-> FracDigits(r % 10 ^ (Decimals - 1), Decimals - 1)]

\* '%14.8f' % v
Format_f(v) ==
    LET r == RoundTo(Abs(v), 10 ^ (TickDigits - Decimals))
    IN [neg |-> v < 0, int |-> Digits(r \div 10 ^ Decimals),
        frac |-> FracDigits(r % 10 ^ Decimals, Decimals)]

\* int(t) of a printed number succeeds
ParsesAsInt(t) == t.frac = <<>>

\* int(t) of a printed number
ParseInt(t) == IF t.neg THEN 0 - ValueOf(t.int) ELSE ValueOf(t.int)

\* float(t) of a printed number, in units of 10^-TickDigits
ParseFloat(t) ==
    LET a == (ValueOf(t.int) * 10 ^ Len(t.frac) + ValueOf(t.frac)) * 10 ^ (TickDigits - Len(t.frac))
    IN IF t.neg THEN 0 - a ELSE a

\* one line of the output file
Item(kind, name, nums, card) == [kind |-> kind, name |-> name, nums |-> nums, card |-> card]

Blank == Item("blank", "", <<>>, "")

\* Node.__str__: the id, a literal 0 and the coordinates
NodeStr(n) ==
    Item("node", "",
         <<Format_d(n.id), Format_d(0), Format_f(n.x), Format_f(n.y)>>
             \o (IF n.nDim = 3 THEN <<Format_f(n.z)>> ELSE <<>>),
         "")

\* Element.__str__: the id, the material tag and the nodes
ElementStr(e) ==
    Item("element", "",
         <<Format_d(e.id), Format_d(e.matn)>> \o [i \in 1..Len(e.nodes) |-> Format_d(e.nodes[i])],
         "")

RECURSIVE Sorted(_)
\* sorted(list) of integers
Sorted(ns) ==
    IF ns = <<>> THEN <<>>
    ELSE LET m == CHOOSE i \in 1..Len(ns) : \A j \in 1..Len(ns) : ns[i] <= ns[j]
         IN <<ns[m]>> \o Sorted(SubSeq(ns, 1, m - 1) \o SubSeq(ns, m + 1, Len(ns)))

\* one block of NodeSet.__str__: the FEAP command and one card per node
CardBlock(command, name, ns, card) ==
    <<Item(command, name, <<>>, "")>>
        \o [i \in 1..Len(ns) |-> Item("card", "", <<Format_d(ns[i]), Format_d(0)>>, card)]

\* NodeSet.__str__ of a set with a boundary or a load card: the load block is assigned
\* to the same string as the boundary block and replaces it
NodeSetStr(nset) ==
    IF nset.setLoad # ""
    THEN CardBlock("load", nset.name, Sorted(nset.nodes), nset.setLoad)
    ELSE CardBlock("boun", nset.name, Sorted(nset.nodes), nset.setBoun)

\* CustomInput.__str__: the block name and the cards
CustomInputStr(ci) ==
    <<Item("custom", ci.block, <<>>, "")>>
        \o [i \in 1..Len(ci.cards) |-> Item("custom card", "", <<>>, ci.cards[i])]

-----------------------------------------------------------------------------

\* AbaqusMesh
Mesh(ns, es, nss, ess) == [nodes |-> ns, elems |-> es, nsets |-> nss, elsets |-> ess]

\* the .inp file: Parse raises on it, or returns a mesh
Unreadable == [ok |-> FALSE, mesh |-> Mesh(<<>>, <<>>, <<>>, <<>>)]
Readable(m) == [ok |-> TRUE, mesh |-> m]

\* a configuration document: the JSON loads or not, the required top-level keys are
\* present or not, a key outside KNOWN_VARS is present or not, and the optional keys
\* (customInput holds at most one JSON object)
ConfigDoc(jsonOk, hasInput, hasOutput, unknownKey, header, footer, centerMesh, es, ns, ci) ==
    [jsonOk |-> jsonOk, hasInput |-> hasInput, hasOutput |-> hasOutput,
     unknownKey |-> unknownKey, header |-> header, footer |-> footer,
     centerMesh |-> centerMesh, elsets |-> es, nsets |-> ns, customInput |-> ci]

\* the fields of a ConfigFileParser before a configuration is parsed
DefaultConf ==
    [jsonOk |-> TRUE, hasInput |-> FALSE, hasOutput |-> FALSE, header |-> "", footer |-> "",
     centerMesh |-> FALSE, elsets |-> <<>>, nsets |-> <<>>]

-----------------------------------------------------------------------------
(* InpFileParser.Parse *)

READ_NODES == 1
READ_ELEMS == 2
READ_NSET  == 3
READ_ELSET == 4
UNKNOWN    == 0

\* A marker line: head is the first comma-delimited token of line.strip(); args are
\* the remaining comma-delimited pieces, a piece "var=val" as [var, val] and a piece
\* without '=' as [var |-> "", val |-> piece].
Arg(var, val) == [var |-> var, val |-> val]

MarkerLines ==
    { [kind |-> "marker", head |-> "*Node",    args |-> <<>>],
      [kind |-> "marker", head |-> "*Element", args |-> <<Arg("type", "S4R")>>],
      [kind |-> "marker", head |-> "*Nset",    args |-> <<Arg("nset", "A")>>],
      [kind |-> "marker", head |-> "*Nset",    args |-> <<>>],
      [kind |-> "marker", head |-> "*Elset",   args |-> <<>>],
      [kind |-> "marker", head |-> "*Elset",   args |-> <<Arg("elset", "A")>>],
      [kind |-> "marker", head |-> "*Elset",   args |-> <<Arg("elset", "B"), Arg("", "generate")>>],
      [kind |-> "marker", head |-> "*Heading", args |-> <<>>],
      [kind |-> "marker", head |-> "*NODE",    args |-> <<>>] }

DataLine(toks) == [kind |-> "data", toks |-> toks]

\* data lines offered to the reader in each mode (line.strip().split(','))
NodeLines  == { <<"1", "0", "0">>, <<"2", "4", "0", "2">>, <<"">>, <<"1", "x", "0">> }

ElemToks   == {"1", "2"}
ElemLines  == { <<a>> : a \in ElemToks }
              \cup { <<a, b>> : a \in ElemToks, b \in ElemToks }
              \cup { <<a, b, c>> : a \in ElemToks, b \in ElemToks, c \in ElemToks }
              \cup { <<"">>, <<"1", "">>, <<"1", "2", "">>, <<"1", " ">>, <<"x", "1">> }

SetLines   == { <<"1">>, <<"2", "1", "">>, <<"">>, <<"1", " ", "2">>, <<"1", "x">>,
                <<"3", "4", "1", "2">> }

GenToks    == {"1", "4"}
GenIncs    == {"1", "2", "-1", "-2", "0"}
GenLines   == { <<a, b, c>> : a \in GenToks, b \in GenToks, c \in GenIncs }
              \cup { <<"">>, <<"1", "4">>, <<"1", "4", "1", "1">>, <<"1", "", "1">> }

OtherLines == { <<"1", "2">>, <<"text">> }

\* SelectMode comparing the marker keyword without regard to case
SelectMode_IgnoreCase(head) ==
    IF head \in {"*Node", "*NODE"} THEN READ_NODES
    ELSE IF head = "*Element" THEN READ_ELEMS
    ELSE IF head = "*Nset" THEN READ_NSET
    ELSE IF head = "*Elset" THEN READ_ELSET
    ELSE UNKNOWN

\* the section selected by a marker line
SelectMode(head) ==
    IF head = "*Node" THEN READ_NODES
    ELSE IF head = "*Element" THEN READ_ELEMS
    ELSE IF head = "*Nset" THEN READ_NSET
    ELSE IF head = "*Elset" THEN READ_ELSET
    ELSE UNKNOWN

RECURSIVE SetName(_, _, _)
\* the value of the last "key=value" piece whose key is key, or dflt
SetName(args, key, dflt) ==
    IF args = <<>> THEN dflt
    ELSE LET p == Last(args)
             front == SubSeq(args, 1, Len(args) - 1)
         IN IF p.var = key THEN p.val ELSE SetName(front, key, dflt)

HasGenerate(args) == \E i \in 1..Len(args) : args[i].var = "" /\ Strip(args[i].val) = "generate"

RECURSIVE BuildElems_Strict(_, _)
\* BuildElems with the loop condition len(elemInput) > 1+numNodes
BuildElems_Strict(buf, w) ==
    IF Len(buf) > w
    THEN LET r == BuildElems_Strict(SubSeq(buf, w + 1, Len(buf)), w)
         IN [built |-> <<ElementInts(SubSeq(buf, 1, w))>> \o r.built, rest |-> r.rest]
    ELSE [built |-> <<>>, rest |-> buf]

RECURSIVE BuildElems(_, _)
\* the while loop of the fixed-width reconstruction: elements built from buf, and the rest
BuildElems(buf, w) ==
    IF Len(buf) >= w
    THEN LET r == BuildElems(SubSeq(buf, w + 1, Len(buf)), w)
         IN [built |-> <<ElementInts(SubSeq(buf, 1, w))>> \o r.built, rest |-> r.rest]
    ELSE [built |-> <<>>, rest |-> buf]

RECURSIVE XRange(_, _, _)
\* xrange(start, stop, step) for step # 0
XRange(start, stop, step) ==
    IF (step > 0 /\ start < stop) \/ (step < 0 /\ start > stop)
    THEN <<start>> \o XRange(start + step, stop, step)
    ELSE <<>>

\* the references a generate line (start, end, inc) appends
GenerateRefs(start, end, inc) == XRange(start, end + 1, inc)

StripNonEmpty(s) == Strip(s) # ""

\* int(s) is applied to every token whose strip() is not empty
SetLineOk(toks) == \A i \in 1..Len(toks) : Strip(toks[i]) # "" => IsInt(toks[i])
SetLineRefs(toks) == Ints(SelectSeq(toks, StripNonEmpty))

\* int(s) is applied to every token that is not the empty string
StreamLineOk(toks) == \A i \in 1..Len(toks) : toks[i] # "" => IsInt(toks[i])
StreamLineInts(toks) == Ints(SelectSeq(toks, NonEmptyTok))

\* the tokens read before int(s) fails on a token of the line
GoodPrefix(toks) ==
    LET bad == { i \in 1..Len(toks) : Strip(toks[i]) # "" /\ ~IsInt(toks[i]) }
    IN IF bad = {} THEN toks
       ELSE SubSeq(toks, 1, (CHOOSE i \in bad : \A j \in bad : i <= j) - 1)

\* AppendToLast adding the references to the first set
AppendToLast_First(sets, field, refs) ==
    [sets EXCEPT ![1] = [@ EXCEPT ![field] = @ \o refs]]

\* curNset.nodes / curElset.elems grow by refs: the current set is the one appended last
AppendToLast(sets, field, refs) ==
    [sets EXCEPT ![Len(sets)] = [@ EXCEPT ![field] = @ \o refs]]

Reading == pstate = "reading" /\ lineNumber < MaxLines

Raise ==
    /\ pstate' = "raised"

ParseInit ==
    /\ readMode = READ_NODES
    /\ nodesPerElem \in 0..MaxNpe
    /\ numNodes = (IF nodesPerElem # 0 THEN nodesPerElem ELSE -1)
    /\ nDim = 3
    /\ elemInput = <<>>
    /\ ignoredLines = <<>>
    /\ lineNumber = 0
    /\ line = [kind |-> "none"]
    /\ pstate = "reading"
    /\ elemStream = <<>>
    /\ sectionBase = 0

numNodesKnown == nodesPerElem # 0

\* a line starting with '*'
ReadMarker ==
    /\ Reading
    /\ \E l \in MarkerLines :
        /\ line' = l
        /\ lineNumber' = lineNumber + 1
        /\ readMode' = SelectMode(l.head)
        /\ elemInput' = (IF l.head = "*Element" THEN <<>> ELSE elemInput)
        /\ elemStream' = (IF l.head = "*Element" THEN <<>> ELSE elemStream)
        /\ sectionBase' = (IF l.head = "*Element" THEN Len(elems) ELSE sectionBase)
        /\ nsets' = (IF l.head = "*Nset"
                     THEN Append(nsets, [NodeSet EXCEPT !.name = SetName(l.args, "nset", "UNKNOWN_NSET")])
                     ELSE nsets)
        /\ elsets' = (IF l.head = "*Elset"
                      THEN Append(elsets, [ElSet EXCEPT !.name = SetName(l.args, "elset", "UNKNOWN_ELSET"),
                                                        !.generate = HasGenerate(l.args)])
                      ELSE elsets)
        /\ warnings' = (IF SelectMode(l.head) = UNKNOWN /\ Len(elemInput) # 0
                        THEN Append(warnings, Warning("unprocessed element input", ""))
                        ELSE warnings)
    /\ UNCHANGED <<nodesPerElem, numNodes, nDim, ignoredLines, pstate, nodes, elems, buildVars, testVars>>

\* a data line in READ_NODES mode
ReadNodeLine ==
    /\ Reading
    /\ readMode = READ_NODES
    /\ \E toks \in NodeLines :
        /\ line' = DataLine(toks)
        /\ lineNumber' = lineNumber + 1
        /\ IF NodeOk(toks)
           THEN LET n == Node(toks)
                IN /\ nodes' = Append(nodes, n)
                   /\ nDim' = n.nDim
                   /\ warnings' = (IF nDim # -1 /\ nDim # n.nDim
                                   THEN Append(warnings, Warning("node dimension mismatch", ""))
                                   ELSE warnings)
                   /\ UNCHANGED pstate
           ELSE Raise /\ UNCHANGED <<nodes, nDim, warnings>>
    /\ UNCHANGED <<readMode, nodesPerElem, numNodes, elemInput, ignoredLines, elemStream,
                   sectionBase, elems, nsets, elsets, buildVars, testVars>>

\* a data line in READ_ELEMS mode, nodes per element not pre-declared: one element per line
ReadElemLine ==
    /\ Reading
    /\ readMode = READ_ELEMS
    /\ ~numNodesKnown
    /\ \E toks \in ElemLines :
        /\ line' = DataLine(toks)
        /\ lineNumber' = lineNumber + 1
        /\ IF ElementOk(toks)
           THEN LET e == Element(toks)
                IN /\ elems' = Append(elems, e)
                   /\ numNodes' = e.numNodes
                   /\ warnings' = (IF numNodes # -1 /\ numNodes # e.numNodes
                                   THEN Append(warnings, Warning("element node count mismatch", ""))
                                   ELSE warnings)
                   /\ UNCHANGED pstate
           ELSE Raise /\ UNCHANGED <<elems, numNodes, warnings>>
    /\ UNCHANGED <<readMode, nodesPerElem, nDim, elemInput, ignoredLines, elemStream,
                   sectionBase, nodes, nsets, elsets, buildVars, testVars>>

\* a data line in READ_ELEMS mode, nodes per element pre-declared: fixed-width reconstruction
ReadElemStream ==
    /\ Reading
    /\ readMode = READ_ELEMS
    /\ numNodesKnown
    /\ \E toks \in ElemLines :
        /\ line' = DataLine(toks)
        /\ lineNumber' = lineNumber + 1
        /\ IF StreamLineOk(toks)
           THEN LET r == BuildElems(elemInput \o StreamLineInts(toks), 1 + numNodes)
                IN /\ elems' = elems \o r.built
                   /\ elemInput' = r.rest
                   /\ elemStream' = elemStream \o StreamLineInts(toks)
                   /\ UNCHANGED pstate
           ELSE Raise /\ UNCHANGED <<elems, elemInput, elemStream>>
    /\ UNCHANGED <<readMode, nodesPerElem, numNodes, nDim, ignoredLines, sectionBase,
                   nodes, nsets, elsets, warnings, buildVars, testVars>>

\* a data line in READ_NSET mode
ReadNsetLine ==
    /\ Reading
    /\ readMode = READ_NSET
    /\ \E toks \in SetLines :
        /\ line' = DataLine(toks)
        /\ lineNumber' = lineNumber + 1
        /\ IF SetLineOk(toks)
           THEN nsets' = AppendToLast(nsets, "nodes", SetLineRefs(toks)) /\ UNCHANGED pstate
           ELSE Raise /\ nsets' = AppendToLast(nsets, "nodes", SetLineRefs(GoodPrefix(toks)))
    /\ UNCHANGED <<readMode, nodesPerElem, numNodes, nDim, elemInput, ignoredLines, elemStream,
                   sectionBase, nodes, elems, elsets, warnings, buildVars, testVars>>

\* a data line in READ_ELSET mode, the open set not marked generate
ReadElsetLine ==
    /\ Reading
    /\ readMode = READ_ELSET
    /\ ~Last(elsets).generate
    /\ \E toks \in SetLines :
        /\ line' = DataLine(toks)
        /\ lineNumber' = lineNumber + 1
        /\ IF SetLineOk(toks)
           THEN elsets' = AppendToLast(elsets, "elems", SetLineRefs(toks)) /\ UNCHANGED pstate
           ELSE Raise /\ elsets' = AppendToLast(elsets, "elems", SetLineRefs(GoodPrefix(toks)))
    /\ UNCHANGED <<readMode, nodesPerElem, numNodes, nDim, elemInput, ignoredLines, elemStream,
                   sectionBase, nodes, elems, nsets, warnings, buildVars, testVars>>

\* GenerateLineOk requiring at least three tokens
GenerateLineOk_AtLeast3(toks) ==
    Len(toks) >= 3 /\ AllInt(SubSeq(toks, 1, 3)) /\ IntOf(toks[3]) # 0

\* a generate line is accepted: three tokens, all integers, increment not 0
GenerateLineOk(toks) == Len(toks) = 3 /\ AllInt(toks) /\ IntOf(toks[3]) # 0

\* a data line in READ_ELSET mode, the open set marked generate
ReadGenerateLine ==
    /\ Reading
    /\ readMode = READ_ELSET
    /\ Last(elsets).generate
    /\ \E toks \in GenLines :
        /\ line' = DataLine(toks)
        /\ lineNumber' = lineNumber + 1
        /\ IF GenerateLineOk(toks)
           THEN /\ elsets' = AppendToLast(elsets, "elems",
                                 GenerateRefs(IntOf(toks[1]), IntOf(toks[2]), IntOf(toks[3])))
                /\ UNCHANGED pstate
           ELSE Raise /\ UNCHANGED elsets
    /\ UNCHANGED <<readMode, nodesPerElem, numNodes, nDim, elemInput, ignoredLines, elemStream,
                   sectionBase, nodes, elems, nsets, warnings, buildVars, testVars>>

\* the index enumerate() gives, taken as the number of the line
PhysicalLine_ZeroBased(index) == index

\* the 1-based number of the physical line whose index enumerate() gives
PhysicalLine(index) == index + 1

\* a data line in UNKNOWN mode
ReadIgnoredLine ==
    /\ Reading
    /\ readMode = UNKNOWN
    /\ \E toks \in OtherLines :
        /\ line' = DataLine(toks)
        /\ lineNumber' = lineNumber + 1
        /\ ignoredLines' = Append(ignoredLines, PhysicalLine(lineNumber))
    /\ UNCHANGED <<readMode, nodesPerElem, numNodes, nDim, elemInput, pstate, elemStream,
                   sectionBase, meshVars, warnings, buildVars, testVars>>

\* the end of the file: the mesh is returned
EndOfFile ==
    /\ pstate = "reading"
    /\ pstate' = "returned"
    /\ UNCHANGED <<readMode, nodesPerElem, numNodes, nDim, elemInput, ignoredLines, lineNumber,
                   line, elemStream, sectionBase, meshVars, warnings, buildVars, testVars>>

\* no Node is under test
TestIdle ==
    /\ testNodeArgs = <<>>
    /\ testNodes = <<>>
    /\ testResult = "none"
    /\ testStr = <<>>

BuildIdle ==
    /\ pc = "idle"
    /\ confFile = ConfigDoc(TRUE, FALSE, FALSE, FALSE, "", "", FALSE, <<>>, <<>>, <<>>)
    /\ inpFile = Unreadable
    /\ customInputs = <<>>
    /\ declared = <<>>
    /\ output = <<>>
    /\ conf = DefaultConf
    /\ conf_elsets = <<>>
    /\ conf_nsets = <<>>
    /\ editIdx = 0
    /\ outputOpened = FALSE
    /\ exitCode = <<>>
    /\ origElems = <<>>
    /\ steps = <<>>

InitParse ==
    /\ ParseInit
    /\ nodes = <<>> /\ elems = <<>> /\ nsets = <<>> /\ elsets = <<>>
    /\ warnings = <<>>
    /\ BuildIdle
    /\ TestIdle

NextParse ==
    \/ ReadMarker
    \/ ReadNodeLine
    \/ ReadElemLine
    \/ ReadElemStream
    \/ ReadNsetLine
    \/ ReadElsetLine
    \/ ReadGenerateLine
    \/ ReadIgnoredLine
    \/ EndOfFile

SpecParse == InitParse /\ [][NextParse]_vars

-----------------------------------------------------------------------------
(* ConfigFileParser.Build *)

MaxElems == 2       \* elements of the mesh handed to the transformer passes
MaxSets  == 2       \* element sets of that mesh
MaxEdits == 2       \* configured elset edits
MaxPrior == 2       \* custom input blocks a parser holds from its earlier Build calls
MaxNodes == 2       \* nodes of the mesh handed to the centering pass
MaxArgs  == 5       \* arguments given to Node(*args)

SeqsUpTo(S, n) == UNION { [1..k -> S] : k \in 0..n }

Names == {"A", "B"}

\* the ElSet objects _ParseElsets yields: "duplicate" is one integer, appended to a fresh list
ConfElset(name, setMat, duplicate) ==
    [ElSet EXCEPT !.name = name, !.setMat = setMat, !.duplicate = duplicate]

\* the NodeSet objects _ParseNsets yields
ConfNset(name, setBoun, setLoad) ==
    [NodeSet EXCEPT !.name = name, !.setBoun = setBoun, !.setLoad = setLoad]

\* FindSet taking the first set of the mesh whatever its name
FindSet_First(sets, name) ==
    IF sets = <<>> THEN 0 ELSE 1

\* FindSet taking the last set of that name
FindSet_Last(sets, name) ==
    LET hits == { i \in 1..Len(sets) : sets[i].name = name }
    IN IF hits = {} THEN 0 ELSE CHOOSE i \in hits : \A j \in hits : i >= j

\* index of the first set of sets named name, 0 when there is none
FindSet(sets, name) ==
    LET hits == { i \in 1..Len(sets) : sets[i].name = name }
    IN IF hits = {} THEN 0 ELSE CHOOSE i \in hits : \A j \in hits : i <= j

\* BindElsetTo copying the duplicate list unconditionally
BindElsetTo_CopyAll(mesh_elset, conf_elset) ==
    [mesh_elset EXCEPT !.setMat = conf_elset.setMat, !.duplicate = conf_elset.duplicate]

\* the matched mesh elset after the edit conf_elset
BindElsetTo(mesh_elset, conf_elset) ==
    [mesh_elset EXCEPT !.setMat = conf_elset.setMat,
                       !.duplicate = IF Len(conf_elset.duplicate) > 0
                                     THEN conf_elset.duplicate ELSE @]

\* the matched mesh nset after the edit conf_nset
BindNsetTo(mesh_nset, conf_nset) ==
    [mesh_nset EXCEPT !.setBoun = conf_nset.setBoun, !.setLoad = conf_nset.setLoad]

Contains(refs, id) == \E i \in 1..Len(refs) : refs[i] = id

RECURSIVE ApplySets_FirstWins(_, _)
\* ApplySets stopping at the first containing set
ApplySets_FirstWins(e, sets) ==
    IF sets = <<>> THEN e
    ELSE LET s == Head(sets)
         IN IF Contains(s.elems, e.id)
            THEN [e EXCEPT !.matn = s.setMat,
                           !.duplicate = IF Len(s.duplicate) > 0 THEN s.duplicate ELSE @]
            ELSE ApplySets_FirstWins(e, Tail(sets))

RECURSIVE ApplySets(_, _)
\* the inner loop of material propagation: every containing set, in order, overwrites
ApplySets(e, sets) ==
    IF sets = <<>> THEN e
    ELSE LET s == Head(sets)
             e1 == IF Contains(s.elems, e.id)
                   THEN [e EXCEPT !.matn = s.setMat,
                                  !.duplicate = IF Len(s.duplicate) > 0 THEN s.duplicate ELSE @]
                   ELSE e
         IN ApplySets(e1, Tail(sets))

\* DuplicateOf keeping the material tag a new Element starts with
DuplicateOf_DefaultMat(newId, e, matn) == ElementInts(<<newId>> \o e.nodes)

\* the duplicate of e with id newId and material tag matn
DuplicateOf(newId, e, matn) == [ElementInts(<<newId>> \o e.nodes) EXCEPT !.matn = matn]

RECURSIVE NewElems(_, _, _, _)
\* the duplication loops: es are the elements still to examine, k the entries of the
\* first of them already handled, acc the new elements so far, lastId = mesh.elems[-1].id
NewElems(es, k, acc, lastId) ==
    IF es = <<>> THEN acc
    ELSE LET e == Head(es)
         IN IF k >= Len(e.duplicate)
            THEN NewElems(Tail(es), 0, acc, lastId)
            ELSE NewElems(es, k + 1,
                          Append(acc, DuplicateOf(lastId + Len(acc) + 1, e, e.duplicate[k + 1])),
                          lastId)

\* Element(newId, *e.nodes) raises for an element to duplicate that stores no node
DuplicationRaises(es) ==
    \E i \in 1..Len(es) : Len(es[i].duplicate) > 0 /\ ~ElementIntsOk(<<es[i].id>> \o es[i].nodes)

Min(S) == CHOOSE v \in S : \A u \in S : v <= u
Max(S) == CHOOSE v \in S : \A u \in S : v >= u

\* n.z is read of every node: a 2-D node has none
CenteringRaises(ns) == \E i \in 1..Len(ns) : "z" \notin DOMAIN ns[i]

\* the bounding box starts from 1.e12 and -1.e12; the model scales that sentinel down to
\* its own range of coordinates
BoxSentinel == 1000

\* xMin, xMax after the scan of the nodes: a coordinate replaces the running value when
\* it is smaller (larger) than it
BoxMin(vals) == Min(vals \cup {BoxSentinel})
BoxMax(vals) == Max(vals \cup {0 - BoxSentinel})

\* the translation of the centering pass on one axis, dx = -xMin - lx/2.; the sample
\* coordinates are even, so that the halving is exact
Delta(vals) == 0 - BoxMin(vals) - (BoxMax(vals) - BoxMin(vals)) \div 2

Centered(ns) ==
    LET dx == Delta({ ns[i].x : i \in 1..Len(ns) })
        dy == Delta({ ns[i].y : i \in 1..Len(ns) })
        dz == Delta({ ns[i].z : i \in 1..Len(ns) })
    IN [i \in 1..Len(ns) |-> [ns[i] EXCEPT !.x = @ + dx, !.y = @ + dy, !.z = @ + dz]]

\* where Build goes after _ParseConfig, which always proceeds
AfterConfig_Unchecked(requiredPresent) == "parseInput"

\* where Build goes after _ParseConfig: on EXIT_FAILURE nothing else is done
AfterConfig(requiredPresent) == IF requiredPresent THEN "parseInput" ELSE "aborted"

\* the keys the code knows in a nested JSON object (CHILD_KNOWN_VARS)
ElsetKeys  == {"name", "setMat", "duplicate"}
NsetKeys   == {"name", "setBoun", "setLoad"}
CustomKeys == {"block", "pos", "cards"}

\* nested JSON objects of the configuration: the keys present and their values (a value
\* whose key is absent is the default of the object built from it)
JsonElset(keys, name, setMat, duplicate) ==
    [keys |-> keys, name |-> name, setMat |-> setMat, duplicate |-> duplicate]
JsonNset(keys, name, setBoun, setLoad) ==
    [keys |-> keys, name |-> name, setBoun |-> setBoun, setLoad |-> setLoad]
JsonCustom(keys, block, pos, cards) ==
    [keys |-> keys, block |-> block, pos |-> pos, cards |-> cards]

\* the ElSet object _ParseElsets builds from one JSON object
ParseElset(o) ==
    ConfElset(o.name, IF "setMat" \in o.keys THEN o.setMat ELSE ElSet.setMat,
              IF "duplicate" \in o.keys THEN <<o.duplicate>> ELSE <<>>)

\* the NodeSet object _ParseNsets builds from one JSON object
ParseNset(o) ==
    ConfNset(o.name, IF "setBoun" \in o.keys THEN o.setBoun ELSE "",
             IF "setLoad" \in o.keys THEN o.setLoad ELSE "")

\* _ParseElsets / _ParseNsets do not return a list: an object without a name makes them
\* return 1, whose len() is then taken, and a key outside known is looked up in the
\* table of assumed types, which has no entry for it
ParseSetsRaises(objs, known) ==
    \E i \in 1..Len(objs) : "name" \notin objs[i].keys \/ ~(objs[i].keys \subseteq known)

\* _ParseCustomInput does not return a CustomInput: without a required key it returns 1,
\* whose pos the sort then reads, and an unknown key is looked up in the table of
\* assumed types
ParseCustomRaises(o) == o.keys # CustomKeys

RECURSIVE SortByPos_Unstable(_)
\* SortByPos placing a block before the blocks of its position
SortByPos_Unstable(cis) ==
    IF cis = <<>> THEN <<>>
    ELSE LET rest == SortByPos_Unstable(SubSeq(cis, 1, Len(cis) - 1))
             ci == Last(cis)
             before == SelectSeq(rest, LAMBDA c : c.pos < ci.pos)
             after == SelectSeq(rest, LAMBDA c : c.pos >= ci.pos)
         IN before \o <<ci>> \o after

RECURSIVE SortByPos(_)
\* customInputs.sort(key=lambda ci: ci.pos): list.sort keeps blocks of equal position in
\* their order
SortByPos(cis) ==
    IF cis = <<>> THEN <<>>
    ELSE LET rest == SortByPos(SubSeq(cis, 1, Len(cis) - 1))
             ci == Last(cis)
             before == SelectSeq(rest, LAMBDA c : c.pos <= ci.pos)
             after == SelectSeq(rest, LAMBDA c : c.pos > ci.pos)
         IN before \o <<ci>> \o after

\* the JSON object _ParseElsets reads the ElSet object e from
JsonOfElset(e) ==
    JsonElset({"name", "setMat"} \cup (IF e.duplicate = <<>> THEN {} ELSE {"duplicate"}),
              e.name, e.setMat, IF e.duplicate = <<>> THEN 0 ELSE e.duplicate[1])

\* configured edits offered to the pipeline
ElsetEdits == { JsonElset({"name", "setMat"} \cup dk, n, 2, IF dk = {} THEN 0 ELSE 5) :
                    n \in Names \cup {"C"}, dk \in {{}, {"duplicate"}} }
NsetEdits  == { JsonNset({"name", "setBoun"} \cup lk, n, "1,1,0", IF lk = {} THEN "" ELSE "0,5") :
                    n \in Names \cup {"C"}, lk \in {{}, {"setLoad"}} }

\* configuration documents given to the whole pipeline
ConfigDocs ==
    { ConfigDoc(j, i, o, FALSE, h, f, c, es, ns, <<>>) :
        j \in BOOLEAN, i \in BOOLEAN, o \in BOOLEAN,
        h \in {"", "header.txt"}, f \in {"", "footer.txt"}, c \in BOOLEAN,
        es \in {<<>>} \cup { <<a>> : a \in ElsetEdits },
        ns \in {<<>>} \cup { <<a>> : a \in NsetEdits } }

\* meshes InpFileParser.Parse returns to the pipeline
Elem(id, ns) == ElementInts(<<id>> \o ns)
EmptyElem(id) == [ElementInts(<<id, 0>>) EXCEPT !.nodes = <<>>]
Node2(id, x, y) == [id |-> id, nDim |-> 2, x |-> x, y |-> y]
Node3(id, x, y, z) == [id |-> id, nDim |-> 3, x |-> x, y |-> y, z |-> z]
MeshElset(name, refs) == [ElSet EXCEPT !.name = name, !.elems = refs]
MeshNset(name, refs) == [NodeSet EXCEPT !.name = name, !.nodes = refs]

\* meshes given to the whole pipeline; two sets of one mesh may bear the same name, or
\* names that differ in case only
SampleMeshes ==
    { Mesh(ns, es, nss, ess) :
        ns  \in { <<>>, <<Node3(1, 0, 0, 0), Node3(2, 4, 2, 0)>>, <<Node3(1, 0, 0, 0), Node2(2, 4, 2)>> },
        es  \in { <<Elem(1, <<1, 2>>), Elem(2, <<2, 1>>)>>, <<Elem(2, <<1, 2>>), EmptyElem(1)>> },
        nss \in { <<>>, <<MeshNset("A", <<2, 1>>)>>,
                  <<MeshNset("a", <<1>>), MeshNset("A", <<2, 1>>), MeshNset("A", <<2>>)>> },
        ess \in { <<>>, <<MeshElset("A", <<1>>)>>, <<MeshElset("B", <<1, 2>>)>>,
                  <<MeshElset("a", <<2>>), MeshElset("A", <<1>>), MeshElset("A", <<1, 2>>)>> } }

Completed(step) == steps' = Append(steps, step)

BuildRaise == pc' = "raised"

\* _ParseConfig and Build's test of its result
ParseConfig ==
    /\ pc = "config"
    /\ LET doc == confFile
           requiredPresent == doc.hasInput /\ doc.hasOutput
           raises == \/ ~doc.jsonOk
                     \/ /\ requiredPresent
                        /\ \/ ParseSetsRaises(doc.elsets, ElsetKeys)
                           \/ ParseSetsRaises(doc.nsets, NsetKeys)
                           \/ \E i \in 1..Len(doc.customInput) :
                                  ParseCustomRaises(doc.customInput[i])
           cis == [i \in 1..Len(doc.customInput) |->
                      CustomInput(doc.customInput[i].block, doc.customInput[i].pos,
                                  doc.customInput[i].cards)]
       IN IF raises
          THEN BuildRaise
               /\ UNCHANGED <<conf, conf_elsets, conf_nsets, customInputs, declared, warnings,
                              steps>>
          ELSE /\ pc' = AfterConfig(requiredPresent)
               /\ IF requiredPresent
                  THEN /\ conf' = [DefaultConf EXCEPT !.hasInput = TRUE, !.hasOutput = TRUE,
                                                      !.header = doc.header,
                                                      !.footer = doc.footer,
                                                      !.centerMesh = doc.centerMesh]
                       /\ conf_elsets' = [i \in 1..Len(doc.elsets) |-> ParseElset(doc.elsets[i])]
                       /\ conf_nsets' = [i \in 1..Len(doc.nsets) |-> ParseNset(doc.nsets[i])]
                       /\ customInputs' = SortByPos(customInputs \o cis)
                       /\ declared' = declared \o cis
                       /\ warnings' = IF doc.unknownKey
                                      THEN Append(warnings, Warning("unknown parameter", ""))
                                      ELSE warnings
                       /\ Completed("config")
                  ELSE UNCHANGED <<conf, conf_elsets, conf_nsets, customInputs, declared,
                                   warnings, steps>>
    /\ UNCHANGED <<parseVars, testVars, files, exitCode, output, meshVars, editIdx, outputOpened, origElems>>

\* _ParseInputFile: the reader returns a mesh or raises (file missing, malformed token,
\* bad generate line)
ParseInputFile ==
    /\ pc = "parseInput"
    /\ IF ~inpFile.ok
       THEN BuildRaise /\ UNCHANGED <<meshVars, steps>>
       ELSE LET m == inpFile.mesh
            IN /\ nodes' = m.nodes /\ elems' = m.elems /\ nsets' = m.nsets
               /\ elsets' = m.elsets
               /\ pc' = "header"
               /\ Completed("parseInput")
    /\ UNCHANGED <<parseVars, testVars, files, exitCode, customInputs, declared, output,
                   warnings, conf, conf_elsets, conf_nsets, editIdx, outputOpened,
                   origElems>>

\* reading the header file, when one is configured
ReadHeader ==
    /\ pc = "header"
    /\ \E exists \in BOOLEAN :
        IF conf.header # "" /\ ~exists
        THEN BuildRaise /\ UNCHANGED steps
        ELSE pc' = "footer" /\ Completed("header")
    /\ UNCHANGED <<parseVars, testVars, files, exitCode, customInputs, declared, output,
                   meshVars, warnings, conf, conf_elsets, conf_nsets, editIdx,
                   outputOpened, origElems>>

\* reading the footer file, when one is configured
ReadFooter ==
    /\ pc = "footer"
    /\ \E exists \in BOOLEAN :
        IF conf.footer # "" /\ ~exists
        THEN BuildRaise /\ UNCHANGED steps
        ELSE pc' = "bindElsets" /\ Completed("footer")
    /\ UNCHANGED <<parseVars, testVars, files, exitCode, customInputs, declared, output,
                   meshVars, warnings, conf, conf_elsets, conf_nsets, editIdx,
                   outputOpened, origElems>>

\* one configured elset edit: bind it to the first mesh elset of its name
BindElset ==
    /\ pc = "bindElsets"
    /\ editIdx < Len(conf_elsets)
    /\ LET conf_elset == conf_elsets[editIdx + 1]
           i == FindSet(elsets, conf_elset.name)
       IN IF i # 0
          THEN /\ elsets' = [elsets EXCEPT ![i] = BindElsetTo(@, conf_elset)]
               /\ UNCHANGED warnings
          ELSE /\ warnings' = Append(warnings, Warning("elset not found", conf_elset.name))
               /\ UNCHANGED elsets
    /\ editIdx' = editIdx + 1
    /\ UNCHANGED <<parseVars, testVars, files, exitCode, customInputs, declared, output,
                   nodes, elems, nsets, pc, conf, conf_elsets, conf_nsets,
                   outputOpened, origElems, steps>>

\* material propagation, once every elset edit is handled
PropagateMaterials ==
    /\ pc = "bindElsets"
    /\ editIdx = Len(conf_elsets)
    /\ elems' = [i \in 1..Len(elems) |-> ApplySets(elems[i], elsets)]
    /\ pc' = "duplicate"
    /\ steps' = steps \o <<"bindElsets", "propagate">>
    /\ UNCHANGED <<parseVars, testVars, files, exitCode, customInputs, declared, output,
                   nodes, nsets, elsets, warnings, conf, conf_elsets, conf_nsets,
                   editIdx, outputOpened, origElems>>

\* the duplication pass
DuplicateElements ==
    /\ pc = "duplicate"
    /\ origElems' = elems
    /\ IF DuplicationRaises(elems)
       THEN BuildRaise /\ UNCHANGED <<elems, steps, editIdx>>
       ELSE /\ elems' = elems \o (IF elems = <<>> THEN <<>>
                                  ELSE NewElems(elems, 0, <<>>, Last(elems).id))
            /\ pc' = "bindNsets"
            /\ editIdx' = 0
            /\ Completed("duplicate")
    /\ UNCHANGED <<parseVars, testVars, files, exitCode, customInputs, declared, output,
                   nodes, nsets, elsets, warnings, conf, conf_elsets, conf_nsets,
                   outputOpened>>

\* one configured nset edit: bind it to the first mesh nset of its name
BindNset ==
    /\ pc = "bindNsets"
    /\ editIdx < Len(conf_nsets)
    /\ LET conf_nset == conf_nsets[editIdx + 1]
           i == FindSet(nsets, conf_nset.name)
       IN IF i # 0
          THEN /\ nsets' = [nsets EXCEPT ![i] = BindNsetTo(@, conf_nset)]
               /\ UNCHANGED warnings
          ELSE /\ warnings' = Append(warnings, Warning("nset not found", conf_nset.name))
               /\ UNCHANGED nsets
    /\ editIdx' = editIdx + 1
    /\ UNCHANGED <<parseVars, testVars, files, exitCode, customInputs, declared, output,
                   nodes, elems, elsets, pc, conf, conf_elsets, conf_nsets,
                   outputOpened, origElems, steps>>

\* the optional centering pass, once every nset edit is handled
CenterMesh ==
    /\ pc = "bindNsets"
    /\ editIdx = Len(conf_nsets)
    /\ IF conf.centerMesh /\ CenteringRaises(nodes)
       THEN BuildRaise /\ steps' = Append(steps, "bindNsets") /\ UNCHANGED nodes
       ELSE /\ nodes' = (IF conf.centerMesh THEN Centered(nodes) ELSE nodes)
            /\ pc' = "write"
            /\ steps' = steps \o <<"bindNsets", "center">>
    /\ UNCHANGED <<parseVars, testVars, files, exitCode, customInputs, declared, output,
                   elems, nsets, elsets, warnings, conf, conf_elsets, conf_nsets,
                   editIdx, outputOpened, origElems>>

RECURSIVE Flatten(_)
\* the lines of several blocks, one after the other
Flatten(blocks) == IF blocks = <<>> THEN <<>> ELSE Head(blocks) \o Flatten(Tail(blocks))

RECURSIVE UntilPositive(_)
\* a first loop that stops at the first block whose pos is above 0
UntilPositive(cis) ==
    IF cis = <<>> \/ Head(cis).pos > 0 THEN <<>>
    ELSE <<Head(cis)>> \o UntilPositive(Tail(cis))

RECURSIVE UntilNonNegative(_)
\* the first custom input loop stops at the first block whose pos is not negative
UntilNonNegative(cis) ==
    IF cis = <<>> \/ Head(cis).pos >= 0 THEN <<>>
    ELSE <<Head(cis)>> \o UntilNonNegative(Tail(cis))

NonNegativePos(ci) == ~(ci.pos < 0)

HasCard(nset) == nset.setBoun # "" \/ nset.setLoad # ""

\* the lines Build writes to the output file
DeckLines ==
    LET customLines(cis) == Flatten([i \in 1..Len(cis) |-> <<Blank>> \o CustomInputStr(cis[i])])
        withCard == SelectSeq(nsets, HasCard)
    IN (IF conf.header # "" THEN <<Item("header", conf.header, <<>>, "")>> ELSE <<>>)
       \o <<Item("coor", "", <<>>, "")>>
       \o [i \in 1..Len(nodes) |-> NodeStr(nodes[i])]
       \o <<Blank, Item("elem", "", <<>>, "")>>
       \o [i \in 1..Len(elems) |-> ElementStr(elems[i])]
       \o customLines(UntilNonNegative(customInputs))
       \o Flatten([i \in 1..Len(withCard) |-> <<Blank>> \o NodeSetStr(withCard[i]) \o <<Blank>>])
       \o customLines(SelectSeq(customInputs, NonNegativePos))
       \o (IF conf.footer # "" THEN <<Blank, Item("footer", conf.footer, <<>>, "")>> ELSE <<>>)

\* opening the output file, which may fail, and writing the deck; printing a node set
\* sorts its nodes in place
WriteOutput ==
    /\ pc = "write"
    /\ \E opens \in BOOLEAN :
        IF opens
        THEN /\ outputOpened' = TRUE
             /\ output' = DeckLines
             /\ nsets' = [i \in 1..Len(nsets) |->
                             IF HasCard(nsets[i])
                             THEN [nsets[i] EXCEPT !.nodes = Sorted(@)] ELSE nsets[i]]
             /\ pc' = "done"
             /\ Completed("write")
        ELSE BuildRaise /\ UNCHANGED <<outputOpened, output, nsets, steps>>
    /\ UNCHANGED <<parseVars, testVars, files, exitCode, customInputs, declared, nodes, elems, elsets, warnings,
                   conf, conf_elsets, conf_nsets, editIdx, origElems>>

\* the exit status the interpreter gives when main is left at position p: main drops
\* what Build returns and returns nothing itself, so the status is 0 unless an exception
\* went uncaught, which ends the interpreter with status 1
ExitStatus(p) == IF p = "raised" THEN 1 ELSE 0

\* the end of main: Build has returned or raised, and the process ends
Exit ==
    /\ pc \in {"done", "aborted", "raised"}
    /\ exitCode = <<>>
    /\ exitCode' = <<ExitStatus(pc)>>
    /\ UNCHANGED <<parseVars, meshVars, warnings, testVars, files, pc, conf, conf_elsets,
                   conf_nsets, editIdx, customInputs, output, declared, outputOpened,
                   origElems, steps>>

ParseIdle ==
    /\ readMode = READ_NODES
    /\ nodesPerElem = 0
    /\ numNodes = -1
    /\ nDim = 3
    /\ elemInput = <<>>
    /\ ignoredLines = <<>>
    /\ lineNumber = 0
    /\ line = [kind |-> "none"]
    /\ pstate = "idle"
    /\ elemStream = <<>>
    /\ sectionBase = 0

InitBuild ==
    /\ ParseIdle
    /\ TestIdle
    /\ nodes = <<>> /\ elems = <<>> /\ nsets = <<>> /\ elsets = <<>>
    /\ warnings = <<>>
    /\ pc = "config"
    /\ confFile \in ConfigDocs
    /\ inpFile \in {Unreadable} \cup { Readable(m) : m \in SampleMeshes }
    /\ customInputs = <<>>
    /\ declared = <<>>
    /\ output = <<>>
    /\ conf = DefaultConf
    /\ conf_elsets = <<>>
    /\ conf_nsets = <<>>
    /\ editIdx = 0
    /\ outputOpened = FALSE
    /\ exitCode = <<>>
    /\ origElems = <<>>
    /\ steps = <<>>

NextBuild ==
    \/ ParseConfig
    \/ ParseInputFile
    \/ ReadHeader
    \/ ReadFooter
    \/ BindElset
    \/ PropagateMaterials
    \/ DuplicateElements
    \/ BindNset
    \/ CenterMesh
    \/ WriteOutput
    \/ Exit

SpecBuild == InitBuild /\ [][NextBuild]_vars

\* The transformer passes on elements and element sets alone: Build after the
\* configuration, the mesh, the header and the footer are read.
PassElems  == { Elem(1, <<7, 8>>), Elem(2, <<7, 8>>), Elem(3, <<7, 8>>), EmptyElem(2) }
PassElsets == { MeshElset("A", <<1>>), MeshElset("A", <<1, 2>>), MeshElset("B", <<1, 2>>) }
PassEdits  == { ConfElset("A", 2, <<>>), ConfElset("A", 3, <<5>>), ConfElset("A", 4, <<6>>),
                ConfElset("B", 3, <<5>>) }

InitElsets ==
    /\ ParseIdle
    /\ TestIdle
    /\ nodes = <<>>
    /\ nsets = <<>>
    /\ elems \in SeqsUpTo(PassElems, MaxElems)
    /\ elsets \in SeqsUpTo(PassElsets, MaxSets)
    /\ conf_elsets \in SeqsUpTo(PassEdits, MaxEdits)
    /\ warnings = <<>>
    /\ pc = "bindElsets"
    /\ confFile = ConfigDoc(TRUE, TRUE, TRUE, FALSE, "", "", FALSE,
                            [i \in 1..Len(conf_elsets) |-> JsonOfElset(conf_elsets[i])],
                            <<>>, <<>>)
    /\ inpFile = Readable(Mesh(<<>>, elems, <<>>, elsets))
    /\ customInputs = <<>>
    /\ declared = <<>>
    /\ output = <<>>
    /\ conf = [DefaultConf EXCEPT !.hasInput = TRUE, !.hasOutput = TRUE]
    /\ conf_nsets = <<>>
    /\ editIdx = 0
    /\ outputOpened = FALSE
    /\ exitCode = <<>>
    /\ origElems = <<>>
    /\ steps = <<"config", "parseInput", "header", "footer">>

NextElsets ==
    \/ BindElset
    \/ PropagateMaterials
    \/ DuplicateElements

SpecElsets == InitElsets /\ [][NextElsets]_vars

\* The deck: Build on configurations that carry custom input and node set cards. A
\* parser keeps its customInputs from one Build call to the next, so the list may hold
\* blocks before the configuration is parsed.
DeckBlocks == { CustomInput(b, p, <<"1,0,0">>) : b \in {"vbou", "link"}, p \in {-1, 0, 1} }

DeckCustomInput ==
    {<<>>} \cup { <<JsonCustom(CustomKeys, c.block, c.pos, c.cards)>> : c \in DeckBlocks }

DeckNsetEdits(n, cards) ==
    { JsonNset({"name"} \cup bk \cup lk, n, IF bk = {} THEN "" ELSE "1,1,0",
               IF lk = {} THEN "" ELSE "0,5") :
        bk \in {{}, {"setBoun"}} \cap cards, lk \in {{}, {"setLoad"}} }

DeckNsets ==
    {<<>>} \cup { <<a>> : a \in DeckNsetEdits("A", {{}, {"setBoun"}}) }
           \cup { <<a, b>> : a \in DeckNsetEdits("A", {{}, {"setBoun"}}),
                             b \in DeckNsetEdits("B", {{"setBoun"}}) }

DeckConfigs ==
    { ConfigDoc(TRUE, TRUE, TRUE, FALSE, "", f, FALSE,
                <<JsonElset({"name", "setMat"}, "A", 2, 0)>>, ns, ci) :
        f \in {"", "footer.txt"}, ns \in DeckNsets, ci \in DeckCustomInput }

DeckMeshes ==
    { Mesh(<<Node3(1, 0, 0, 0)>>, <<Elem(1, <<1>>)>>, nss, <<MeshElset("A", <<1>>)>>) :
        nss \in { <<MeshNset("A", <<2, 1>>)>>,
                  <<MeshNset("A", <<2, 1>>), MeshNset("B", <<3>>)>> } }

InitDeck ==
    /\ ParseIdle
    /\ TestIdle
    /\ nodes = <<>> /\ elems = <<>> /\ nsets = <<>> /\ elsets = <<>>
    /\ warnings = <<>>
    /\ pc = "config"
    /\ confFile \in DeckConfigs
    /\ inpFile \in { Readable(m) : m \in DeckMeshes }
    /\ declared \in SeqsUpTo(DeckBlocks, MaxPrior)
    /\ customInputs = SortByPos(declared)
    /\ output = <<>>
    /\ conf = DefaultConf
    /\ conf_elsets = <<>>
    /\ conf_nsets = <<>>
    /\ editIdx = 0
    /\ outputOpened = FALSE
    /\ exitCode = <<>>
    /\ origElems = <<>>
    /\ steps = <<>>

SpecDeck == InitDeck /\ [][NextBuild]_vars

\* The centering pass alone: Build once the node set edits are handled. Coordinates
\* are even; some lie beyond the sentinels of the bounding box.
CenterNodes ==
    { Node3(1, x, y, z) : x \in {-2, 0, 4, BoxSentinel + 2}, y \in {0, 4},
                          z \in {0, 0 - BoxSentinel - 2} }
        \cup { Node2(1, x, 0) : x \in {0, 4} }

InitCenter ==
    /\ ParseIdle
    /\ TestIdle
    /\ nodes \in SeqsUpTo(CenterNodes, MaxNodes)
    /\ elems = <<Elem(1, <<1>>)>>
    /\ nsets = <<MeshNset("A", <<1>>)>>
    /\ elsets = <<MeshElset("A", <<1>>)>>
    /\ warnings = <<>>
    /\ pc = "bindNsets"
    /\ \E c \in BOOLEAN :
        /\ confFile = ConfigDoc(TRUE, TRUE, TRUE, FALSE, "", "", c, <<>>, <<>>, <<>>)
        /\ conf = [DefaultConf EXCEPT !.hasInput = TRUE, !.hasOutput = TRUE, !.centerMesh = c]
    /\ inpFile = Readable(Mesh(nodes, elems, nsets, elsets))
    /\ customInputs = <<>>
    /\ declared = <<>>
    /\ output = <<>>
    /\ conf_elsets = <<>>
    /\ conf_nsets = <<>>
    /\ editIdx = 0
    /\ outputOpened = FALSE
    /\ exitCode = <<>>
    /\ origElems = elems
    /\ steps = <<"config", "parseInput", "header", "footer", "bindElsets", "propagate",
                 "duplicate">>

NextCenter ==
    \/ CenterMesh
    \/ WriteOutput

SpecCenter == InitCenter /\ [][NextCenter]_vars

\* The configuration alone: _ParseConfig on documents whose nested objects may lack the
\* required key or carry a key the code does not know ("bogus").
ElsetObjects ==
    { JsonElset(keys, IF "name" \in keys THEN "A" ELSE ElSet.name,
                IF "setMat" \in keys THEN 2 ELSE ElSet.setMat,
                IF "duplicate" \in keys THEN 5 ELSE 0) :
        keys \in { {"name", "setMat"}, {"name", "setMat", "duplicate"}, {"name", "setMat", "bogus"},
                   {"setMat"} } }

NsetObjects ==
    { JsonNset(keys, IF "name" \in keys THEN "A" ELSE NodeSet.name,
               IF "setBoun" \in keys THEN "1,1,0" ELSE "", IF "setLoad" \in keys THEN "0,5" ELSE "") :
        keys \in { {"name", "setBoun"}, {"name", "setBoun", "setLoad"}, {"name", "setBoun", "bogus"},
                   {"setBoun"} } }

CustomObjects ==
    { JsonCustom(keys, "vbou", 0, <<"1,0,0">>) :
        keys \in { CustomKeys, CustomKeys \cup {"bogus"}, CustomKeys \ {"cards"} } }

ConfigFiles ==
    { ConfigDoc(j, i, o, u, "", "", c, es, ns, ci) :
        j \in BOOLEAN, i \in BOOLEAN, o \in BOOLEAN, u \in BOOLEAN, c \in BOOLEAN,
        es \in {<<>>} \cup { <<a>> : a \in ElsetObjects },
        ns \in {<<>>} \cup { <<a>> : a \in NsetObjects },
        ci \in {<<>>} \cup { <<a>> : a \in CustomObjects } }

InitConfig ==
    /\ ParseIdle
    /\ TestIdle
    /\ nodes = <<>> /\ elems = <<>> /\ nsets = <<>> /\ elsets = <<>>
    /\ warnings = <<>>
    /\ pc = "config"
    /\ confFile \in ConfigFiles
    /\ inpFile = Readable(Mesh(<<>>, <<>>, <<>>, <<>>))
    /\ customInputs = <<>>
    /\ declared = <<>>
    /\ output = <<>>
    /\ conf = DefaultConf
    /\ conf_elsets = <<>>
    /\ conf_nsets = <<>>
    /\ editIdx = 0
    /\ outputOpened = FALSE
    /\ exitCode = <<>>
    /\ origElems = <<>>
    /\ steps = <<>>

NextConfig ==
    \/ ParseConfig
    \/ ParseInputFile

SpecConfig == InitConfig /\ [][NextConfig]_vars

\* Node on its own: construction from an argument list and serialisation, as test.py
\* and the node branch of the reader use it. Arguments are text tokens.
NodeToks == {"1", "-2", "15", "26", "50", "x", "1e1"}

\* Node(*args): the object, or ValueError
NewNode ==
    /\ testResult = "none"
    /\ IF NodeOk(testNodeArgs)
       THEN testNodes' = Append(testNodes, Node(testNodeArgs)) /\ testResult' = "constructed"
       ELSE testResult' = "ValueError" /\ UNCHANGED testNodes
    /\ UNCHANGED <<parseVars, meshVars, warnings, buildVars, testNodeArgs, testStr>>

\* str(node) of the node constructed
PrintNode ==
    /\ testResult = "constructed"
    /\ testStr = <<>>
    /\ testStr' = <<NodeStr(testNodes[1])>>
    /\ UNCHANGED <<parseVars, meshVars, warnings, buildVars, testNodeArgs, testNodes, testResult>>

InitNode ==
    /\ ParseIdle
    /\ nodes = <<>> /\ elems = <<>> /\ nsets = <<>> /\ elsets = <<>>
    /\ warnings = <<>>
    /\ BuildIdle
    /\ testNodeArgs \in SeqsUpTo(NodeToks, MaxArgs)
    /\ testNodes = <<>>
    /\ testResult = "none"
    /\ testStr = <<>>

NextNode ==
    \/ NewNode
    \/ PrintNode

SpecNode == InitNode /\ [][NextNode]_vars

-----------------------------------------------------------------------------
(* Properties of the reader (SpecParse) *)

\* a step that reads one more physical line
LineRead == lineNumber' = lineNumber + 1

\* C1: the reader starts in READ_NODES; a line starting with '*' leaves the reader in
\* the mode its first comma-delimited token selects (*Node, *Element, *Nset, *Elset,
\* UNKNOWN for every other marker), and a data line never changes the mode.
C1_ModeTransitions ==
    /\ readMode = READ_NODES
    /\ [][ /\ (LineRead /\ line'.kind = "marker") =>
                readMode' = (CASE line'.head = "*Node"    -> READ_NODES
                               [] line'.head = "*Element" -> READ_ELEMS
                               [] line'.head = "*Nset"    -> READ_NSET
                               [] line'.head = "*Elset"   -> READ_ELSET
                               [] OTHER                   -> UNKNOWN)
           /\ ~(LineRead /\ line'.kind = "marker") => readMode' = readMode ]_vars

\* C1 witness: a data line was read in a mode a marker had selected, after an
\* unrecognised marker had been seen in between
C1_Witness ==
    /\ readMode = READ_ELSET
    /\ line.kind = "data"
    /\ lineNumber = 4
    /\ ignoredLines # <<>>

\* the consecutive groups of w integers of stream, each as an element (id, node references)
Groups(stream, w) ==
    [g \in 1..(Len(stream) \div w) |->
        [id |-> stream[(g - 1) * w + 1],
         nodes |-> [j \in 1..(w - 1) |-> stream[(g - 1) * w + 1 + j]]]]

IdAndNodes(es) == [i \in 1..Len(es) |-> [id |-> es[i].id, nodes |-> es[i].nodes]]

\* C2: with nodesPerElem pre-declared as k, the elements appended in an element section
\* are exactly the consecutive groups of 1+k integers of the concatenation of the
\* integers of its data lines, the pending buffer holds the fewer than 1+k integers
\* that remain, and a *Element marker leaves the buffer empty.
C2_FixedWidthGroups ==
    nodesPerElem # 0 =>
        LET w == 1 + nodesPerElem
        IN /\ Len(elemInput) < w
           /\ IdAndNodes(SubSeq(elems, sectionBase + 1, Len(elems))) = Groups(elemStream, w)
           /\ elemInput = SubSeq(elemStream, (Len(elemStream) \div w) * w + 1, Len(elemStream))
           /\ (line.kind = "marker" /\ line.head = "*Element") => elemInput = <<>>

\* C2 witness: a second element section whose first record spans two lines, after a
\* first section that left integers pending
C2_Witness ==
    /\ nodesPerElem = 2
    /\ lineNumber = 4
    /\ line.kind = "data"
    /\ sectionBase = 0
    /\ Len(elems) = 1
    /\ Len(elemStream) = 4

\* the values start, start+inc, ... that lie between start and end inclusive
Progression(start, end, inc) ==
    LET n == IF inc > 0
             THEN (IF end >= start THEN (end - start) \div inc + 1 ELSE 0)
             ELSE (IF start >= end THEN (start - end) \div (-inc) + 1 ELSE 0)
    IN [i \in 1..n |-> start + (i - 1) * inc]

\* a step that reads a well-formed generate line (three integers, increment not 0)
GenerateStep ==
    /\ LineRead
    /\ readMode = READ_ELSET
    /\ line'.kind = "data"
    /\ Last(elsets).generate
    /\ Len(line'.toks) = 3
    /\ AllInt(line'.toks)
    /\ IntOf(line'.toks[3]) # 0

\* C6: a generate line (start, end, increment) appends exactly start, start+increment,
\* ... up to and including end, for every non-zero increment, positive or negative.
C6_GenerateInclusive ==
    [][ GenerateStep =>
          Last(elsets').elems =
              Last(elsets).elems
              \o Progression(IntOf(line'.toks[1]), IntOf(line'.toks[2]), IntOf(line'.toks[3])) ]_vars

\* C7: in a generate set a data line whose token count is not three raises, appends
\* nothing and no mesh is ever returned; in a set not marked generate a line of any
\* number of (integer or empty) tokens is accepted and its non-empty tokens are appended.
C7_GenerateArity ==
    [][ /\ (LineRead /\ readMode = READ_ELSET /\ line'.kind = "data" /\ Last(elsets).generate
              /\ Len(line'.toks) # 3)
            => (pstate' = "raised" /\ meshVars' = meshVars)
        /\ (LineRead /\ readMode = READ_ELSET /\ line'.kind = "data" /\ ~Last(elsets).generate
              /\ \A i \in 1..Len(line'.toks) : line'.toks[i] \in {"", " "} \/ IsInt(line'.toks[i]))
            => /\ pstate' = "reading"
               /\ Last(elsets').elems =
                     Last(elsets).elems \o Ints(SelectSeq(line'.toks, IsInt))
               /\ Len(elsets') = Len(elsets)
        /\ pstate = "raised" => pstate' = "raised" ]_vars

\* C7 witness: a generate line of four tokens has aborted the reader
C7_Witness ==
    /\ pstate = "raised"
    /\ readMode = READ_ELSET
    /\ Last(elsets).generate
    /\ line.kind = "data"
    /\ Len(line.toks) = 4

-----------------------------------------------------------------------------
(* Properties of the transformer passes (SpecElsets) and of the pipeline (SpecBuild) *)

Duplicated == pc = "bindNsets" /\ Last(steps) = "duplicate"

NumNew == Len(elems) - Len(origElems)

MaxId(es) == Max({ es[i].id : i \in 1..Len(es) })

\* C3: the j-th element the duplication pass creates gets id M + j, M the maximum
\* element id before the pass, for any order of the elements; so unique ids stay unique.
C3_FreshIdsAboveMax ==
    (Duplicated /\ NumNew > 0) =>
        /\ \A j \in 1..NumNew : elems[Len(origElems) + j].id = MaxId(origElems) + j
        /\ (\A a, b \in 1..Len(origElems) : a # b => origElems[a].id # origElems[b].id)
             => (\A a, b \in 1..Len(elems) : a # b => elems[a].id # elems[b].id)

RECURSIVE DupCountBefore(_, _)
\* the number of duplicate-list entries of the elements before the i-th
DupCountBefore(es, i) ==
    IF i <= 1 THEN 0 ELSE DupCountBefore(es, i - 1) + Len(es[i - 1].duplicate)

\* C4: after the duplication pass the collection is the pre-pass sequence unchanged,
\* followed by one new element per (pre-pass element, entry of its duplicate list), in
\* element order then entry order, with the source's node references and the entry as
\* material tag; new elements carry no duplicate list of their own.
C4_DuplicationAppends ==
    Duplicated =>
        /\ SubSeq(elems, 1, Len(origElems)) = origElems
        /\ NumNew = DupCountBefore(origElems, Len(origElems) + 1)
        /\ \A i \in 1..Len(origElems) : \A k \in 1..Len(origElems[i].duplicate) :
              LET new == elems[Len(origElems) + DupCountBefore(origElems, i) + k]
              IN /\ new.nodes = origElems[i].nodes
                 /\ new.matn = origElems[i].duplicate[k]
                 /\ new.duplicate = <<>>

\* C4 witness: two elements were duplicated, the first of them not the first of the mesh
C4_Witness ==
    /\ Duplicated
    /\ Len(origElems) = 2
    /\ NumNew = 2
    /\ origElems[1].matn # origElems[2].matn

\* C3 witness of the failing case: the last element of the mesh does not carry the
\* maximum id
C3_Witness ==
    /\ Duplicated
    /\ NumNew > 0
    /\ Last(origElems).id < MaxId(origElems)

Propagated == pc = "duplicate"

ContainingSets(e) == { s \in 1..Len(elsets) : \E r \in 1..Len(elsets[s].elems) : elsets[s].elems[r] = e.id }

\* C5: after material propagation an element contained in at least one ElementSet has
\* the materialNumber of the last containing set, an element in no set keeps tag 1;
\* its duplicate list is that of the last containing set with a non-empty list, empty
\* when there is none.
C5_LastContainingSetWins ==
    Propagated =>
        \A i \in 1..Len(elems) :
            LET cs == ContainingSets(elems[i])
                ds == { s \in cs : elsets[s].duplicate # <<>> }
            IN /\ elems[i].matn = (IF cs = {} THEN 1 ELSE elsets[Max(cs)].setMat)
               /\ elems[i].duplicate = (IF ds = {} THEN <<>> ELSE elsets[Max(ds)].duplicate)

\* C5 witness: an element lies in two sets with different material numbers, the last of
\* them without duplicate list and the first with one; another element lies in no set
C5_Witness ==
    /\ Propagated
    /\ Len(elsets) = 2
    /\ elsets[1].setMat # elsets[2].setMat
    /\ elsets[1].duplicate # <<>>
    /\ elsets[2].duplicate = <<>>
    /\ \E i \in 1..Len(elems) : ContainingSets(elems[i]) = {1, 2}
    /\ \E i \in 1..Len(elems) : ContainingSets(elems[i]) = {}

BindingDone == pc \in {"duplicate", "bindNsets"} \/ (pc = "bindElsets" /\ editIdx = Len(conf_elsets))

EditsNamed(n) == { j \in 1..Len(conf_elsets) : conf_elsets[j].name = n }

\* the mesh elsets a configured edit matched: the first of each name some edit carries
MatchedSets ==
    { i \in 1..Len(elsets) :
        /\ EditsNamed(elsets[i].name) # {}
        /\ \A h \in 1..(i - 1) : elsets[h].name # elsets[i].name }

\* C10 as stated: after elset binding the matched set carries the materialNumber and
\* the duplicateMaterials of the last configured edit of its name, also when that list
\* is empty.
C10_LastEditCopied ==
    BindingDone =>
        \A i \in MatchedSets :
            LET last == conf_elsets[Max(EditsNamed(elsets[i].name))]
            IN elsets[i].setMat = last.setMat /\ elsets[i].duplicate = last.duplicate

\* C10 amended: after elset binding the matched set carries the materialNumber of the
\* last configured edit of its name, and the duplicateMaterials of the last edit of its
\* name whose list is non-empty; its list stays empty when no such edit has one.
C10_LastNonEmptyDuplicate ==
    BindingDone =>
        \A i \in MatchedSets :
            LET named == EditsNamed(elsets[i].name)
                withDup == { j \in named : conf_elsets[j].duplicate # <<>> }
            IN /\ elsets[i].setMat = conf_elsets[Max(named)].setMat
               /\ elsets[i].duplicate =
                     (IF withDup = {} THEN <<>> ELSE conf_elsets[Max(withDup)].duplicate)

\* C10 witness: two edits of one name, the first with a duplicate list and the last
\* without, were bound to a set of the mesh
C10_Witness ==
    /\ BindingDone
    /\ Len(conf_elsets) = 2
    /\ conf_elsets[1].name = conf_elsets[2].name
    /\ conf_elsets[1].duplicate # <<>>
    /\ conf_elsets[2].duplicate = <<>>
    /\ MatchedSets # {}

PassesBeforeWrite ==
    <<"config", "parseInput", "header", "footer", "bindElsets", "propagate", "duplicate",
      "bindNsets", "center">>

\* C8: the output file is opened only after configuration parsing, mesh parsing,
\* header/footer reading and all transformer passes have completed; a run that failed
\* fatally or stopped on a missing required key never opened it.
C8_OutputOnlyAfterPasses ==
    /\ outputOpened =>
          (Len(steps) >= Len(PassesBeforeWrite)
             /\ SubSeq(steps, 1, Len(PassesBeforeWrite)) = PassesBeforeWrite)
    /\ pc \in {"raised", "aborted"} => ~outputOpened

\* C8 witness: a run has failed inside a transformer pass, after the mesh was read
C8_Witness ==
    /\ pc = "raised"
    /\ Len(steps) >= 6
    /\ ~outputOpened

\* a step that handles a configured elset (nset) edit whose name no set of the mesh has
UnmatchedElsetEdit ==
    /\ pc = "bindElsets"
    /\ editIdx < Len(conf_elsets)
    /\ \A i \in 1..Len(elsets) : elsets[i].name # conf_elsets[editIdx + 1].name

UnmatchedNsetEdit ==
    /\ pc = "bindNsets"
    /\ editIdx < Len(conf_nsets)
    /\ \A i \in 1..Len(nsets) : nsets[i].name # conf_nsets[editIdx + 1].name

\* C9: a configured elset or nset edit whose name matches no set of the mesh changes
\* no set, element or node, prints exactly one diagnostic and does not stop the run:
\* Build goes on with the next edit or pass.
C9_UnmatchedEditNonFatal ==
    [][ (UnmatchedElsetEdit \/ UnmatchedNsetEdit) =>
          /\ meshVars' = meshVars
          /\ Len(warnings') = Len(warnings) + 1
          /\ Last(warnings').name = (IF pc = "bindElsets" THEN conf_elsets[editIdx + 1].name
                                     ELSE conf_nsets[editIdx + 1].name)
          /\ pc' = pc
          /\ editIdx' = editIdx + 1 ]_vars

\* C9 witness: the deck was written in a run with one unmatched elset edit and one
\* unmatched nset edit, on a mesh that has sets of both kinds
C9_Witness ==
    /\ pc = "done"
    /\ outputOpened
    /\ Len(warnings) = 2
    /\ elsets # <<>>
    /\ nsets # <<>>

\* i is the first set of sets that bears the name
FirstNamed(sets, name, i) == sets[i].name = name /\ \A j \in 1..(i - 1) : sets[j].name # name

\* a step that handles one configured edit of the binding pass at position
EditStep(position) == pc = position /\ editIdx' = editIdx + 1

\* C11: a configured edit modifies only the first mesh set of its name: that set takes
\* the edit's material number (resp. boundary and load card), every later set of the
\* same name and every set of another name is left as it was, and no set is added,
\* removed or renamed; an elset edit changes no node set and an nset edit no element set.
C11_OnlyFirstOfName ==
    [][ /\ EditStep("bindElsets") =>
            LET edit == conf_elsets[editIdx + 1]
            IN /\ Len(elsets') = Len(elsets)
               /\ nsets' = nsets
               /\ \A i \in 1..Len(elsets) :
                    IF FirstNamed(elsets, edit.name, i)
                    THEN elsets'[i].setMat = edit.setMat /\ elsets'[i].name = edit.name
                    ELSE elsets'[i] = elsets[i]
        /\ EditStep("bindNsets") =>
            LET edit == conf_nsets[editIdx + 1]
            IN /\ Len(nsets') = Len(nsets)
               /\ elsets' = elsets
               /\ \A i \in 1..Len(nsets) :
                    IF FirstNamed(nsets, edit.name, i)
                    THEN /\ nsets'[i].setBoun = edit.setBoun
                         /\ nsets'[i].setLoad = edit.setLoad
                         /\ nsets'[i].name = edit.name
                    ELSE nsets'[i] = nsets[i]
      ]_vars

\* both binding passes are over, an element set and a node set were edited, and a later
\* set of the same name still has what the reader gave it
C11_Witness ==
    /\ pc = "write"
    /\ \E i, j \in 1..Len(elsets) :
        /\ i < j /\ elsets[i].name = elsets[j].name
        /\ elsets[i].setMat = 2 /\ elsets[j].setMat = ElSet.setMat
    /\ \E i, j \in 1..Len(nsets) :
        /\ i < j /\ nsets[i].name = nsets[j].name
        /\ nsets[i].setBoun = "1,1,0" /\ nsets[j].setBoun = ""

-----------------------------------------------------------------------------
(* Properties of the written deck (SpecDeck) *)

NsetLine(it) == it.kind \in {"boun", "load", "card"}

\* the blocks the cards of one node set call for: one per non-empty card, the nodes in
\* ascending order
BlocksOf(nset) ==
    (IF nset.setBoun # "" THEN CardBlock("boun", nset.name, Sorted(nset.nodes), nset.setBoun)
     ELSE <<>>)
    \o (IF nset.setLoad # "" THEN CardBlock("load", nset.name, Sorted(nset.nodes), nset.setLoad)
        ELSE <<>>)

\* C12: the node set lines of the written deck are, set by set, a boun block when the
\* boundary card is not empty and a load block when the load card is not empty (both
\* blocks when both cards are set, none when both are empty), each with one line per
\* node reference in ascending order.
C12_BlockPerCard ==
    pc = "done" => SelectSeq(output, NsetLine) = Flatten([i \in 1..Len(nsets) |-> BlocksOf(nsets[i])])

\* a deck was written for a node set that has both cards
C12_Witness ==
    /\ pc = "done"
    /\ \E i \in 1..Len(nsets) : nsets[i].setBoun # "" /\ nsets[i].setLoad # ""

RECURSIVE InOrder(_, _)
\* the blocks of ds whose position is in ps, by ascending position, blocks of one
\* position in the order of ds
InOrder(ds, ps) ==
    IF ps = {} THEN <<>>
    ELSE LET q == Min(ps)
         IN SelectSeq(ds, LAMBDA c : c.pos = q) \o InOrder(ds, ps \ {q})

Positions == { declared[i].pos : i \in 1..Len(declared) }

Skeleton(it) == it.kind \in {"elem", "custom", "boun", "load", "footer"}

NsetAt == { i \in 1..Len(output) : output[i].kind \in {"boun", "load"} }
CustomAt(b) == { i \in 1..Len(output) : output[i] = Item("custom", b, <<>>, "") }

\* how many declared blocks named b satisfy Before, and how many do not
NumDeclared(b, Before(_), yes) ==
    Cardinality({ j \in 1..Len(declared) :
                    declared[j].block = b /\ (Before(declared[j]) <=> yes) })

\* in a deck with node set blocks, the custom blocks written before the first of them
\* are the declared blocks that satisfy Before, and those written after the last of them
\* are the other declared blocks
SplitAroundNsets(Before(_)) ==
    (pc = "done" /\ NsetAt # {}) =>
        \A b \in { declared[j].block : j \in 1..Len(declared) } :
            /\ Cardinality({ i \in CustomAt(b) : i < Min(NsetAt) }) = NumDeclared(b, Before, TRUE)
            /\ Cardinality({ i \in CustomAt(b) : i > Max(NsetAt) }) = NumDeclared(b, Before, FALSE)

-----------------------------------------------------------------------------
(* Properties of the centering pass (SpecCenter) *)

\* the centering pass runs to its end with centerMesh enabled
CenterStep == pc = "bindNsets" /\ editIdx = Len(conf_nsets) /\ conf.centerMesh /\ pc' = "write"

All3D(ns) == \A i \in 1..Len(ns) : ns[i].nDim = 3

Xs(ns) == { ns[i].x : i \in 1..Len(ns) }
Ys(ns) == { ns[i].y : i \in 1..Len(ns) }
Zs(ns) == { ns[i].z : i \in 1..Len(ns) }

CentredOn(vals) == vals # {} => Min(vals) + Max(vals) = 0

\* every node moved by the same vector, and nothing else of the mesh changed
RigidMove ==
    /\ Len(nodes') = Len(nodes)
    /\ \A i \in 1..Len(nodes) : nodes'[i].id = nodes[i].id /\ nodes'[i].nDim = nodes[i].nDim
    /\ \A i, j \in 1..Len(nodes) :
        /\ nodes'[i].x - nodes'[j].x = nodes[i].x - nodes[j].x
        /\ nodes'[i].y - nodes'[j].y = nodes[i].y - nodes[j].y
        /\ nodes'[i].z - nodes'[j].z = nodes[i].z - nodes[j].z
    /\ elems' = elems /\ nsets' = nsets /\ elsets' = elsets
    /\ (CentredOn(Xs(nodes)) /\ CentredOn(Ys(nodes)) /\ CentredOn(Zs(nodes))) => nodes' = nodes

\* C14: centering a mesh of 3-D nodes, whatever their coordinates, moves every node by
\* one vector, leaves elements and sets alone, changes nothing when the box is centred
\* already, and leaves the minimum and the maximum of each axis summing to 0.
C14_CentredAtOrigin ==
    [][ (CenterStep /\ All3D(nodes)) =>
            /\ RigidMove
            /\ CentredOn(Xs(nodes')) /\ CentredOn(Ys(nodes')) /\ CentredOn(Zs(nodes'))
      ]_vars

\* a mesh of 3-D nodes whose x coordinates all lie above the upper sentinel was centred
C14_Witness ==
    /\ pc = "write"
    /\ conf.centerMesh
    /\ Len(nodes) = 2 /\ All3D(nodes)
    /\ \A i \in 1..2 : inpFile.mesh.nodes[i].x > BoxSentinel

\* C15: with centerMesh enabled and a 2-D node in the mesh, the centering pass does not
\* fail: the run reaches the writing of the deck with x and y centred.
C15_TwoDimCentred ==
    [][ (pc = "bindNsets" /\ editIdx = Len(conf_nsets) /\ conf.centerMesh /\ ~All3D(nodes)) =>
            /\ pc' = "write"
            /\ CentredOn(Xs(nodes')) /\ CentredOn(Ys(nodes'))
      ]_vars

\* the centering pass was attempted on a mesh with a 2-D node
C15_Witness ==
    /\ conf.centerMesh
    /\ ~All3D(inpFile.mesh.nodes)
    /\ pc = "raised"
    /\ Last(steps) = "bindNsets"

-----------------------------------------------------------------------------
(* Properties of the sets the reader builds (SpecParse) *)

\* the value a marker gives for key, or dflt when it gives none
NameGiven(args, key, dflt) ==
    IF \E i \in 1..Len(args) : args[i].var = key
    THEN (CHOOSE a \in { args[i] : i \in 1..Len(args) } : a.var = key).val
    ELSE dflt

\* after is before with one more set, empty and named name
Opened(before, after, name, field) ==
    /\ Len(after) = Len(before) + 1
    /\ SubSeq(after, 1, Len(before)) = before
    /\ Last(after).name = name
    /\ Last(after)[field] = <<>>

\* after is before but for the references of its last set, which only grew
GrewLast(before, after, field) ==
    /\ Len(before) >= 1
    /\ Len(after) = Len(before)
    /\ \A i \in 1..(Len(before) - 1) : after[i] = before[i]
    /\ LET old == Last(before)[field]
           new == Last(after)[field]
       IN /\ Len(new) >= Len(old)
          /\ SubSeq(new, 1, Len(old)) = old
          /\ Last(after) = [Last(before) EXCEPT ![field] = new]

\* C16: every *Nset (resp. *Elset) marker appends one empty set, named by its nset=
\* (resp. elset=) value or UNKNOWN_NSET (resp. UNKNOWN_ELSET), and no other line adds or
\* removes a set; a data line read in a set mode only adds references to the last set of
\* that kind; neither touches nodes, elements or the sets of the other kind.
C16_SetsFollowMarkers ==
    [][ LineRead =>
          /\ line'.kind = "marker" =>
                /\ IF line'.head = "*Nset"
                   THEN Opened(nsets, nsets', NameGiven(line'.args, "nset", "UNKNOWN_NSET"), "nodes")
                   ELSE nsets' = nsets
                /\ IF line'.head = "*Elset"
                   THEN Opened(elsets, elsets', NameGiven(line'.args, "elset", "UNKNOWN_ELSET"),
                               "elems")
                   ELSE elsets' = elsets
                /\ nodes' = nodes /\ elems' = elems
          /\ line'.kind = "data" =>
                /\ readMode = READ_NSET =>
                      GrewLast(nsets, nsets', "nodes")
                      /\ elsets' = elsets /\ nodes' = nodes /\ elems' = elems
                /\ readMode = READ_ELSET =>
                      GrewLast(elsets, elsets', "elems")
                      /\ nsets' = nsets /\ nodes' = nodes /\ elems' = elems
                /\ readMode \notin {READ_NSET, READ_ELSET} => nsets' = nsets /\ elsets' = elsets
      ]_vars

\* an unnamed node set without data, then a named one that received references, then an
\* unnamed element set
C16_Witness ==
    /\ Len(nsets) = 2 /\ Len(elsets) = 1
    /\ nsets[1].name = "UNKNOWN_NSET" /\ nsets[1].nodes = <<>>
    /\ nsets[2].name = "A" /\ nsets[2].nodes # <<>>
    /\ elsets[1].name = "UNKNOWN_ELSET"

-----------------------------------------------------------------------------
(* Properties of Node (SpecNode) *)

\* no token of the list is other than a number
AllNumeric(args) == \A i \in 1..Len(args) : IsFloat(args[i])

\* the id is written as an integer
IntegerId(args) == IsInt(args[1])

C18_NegativeIdRejected ==
    /\ (testResult # "none" /\ Len(testNodeArgs) >= 1 /\ IsInt(testNodeArgs[1])
            /\ IntOf(testNodeArgs[1]) < 0) => testResult = "ValueError"
    /\ \A i \in 1..Len(testNodes) : testNodes[i].id > 0

\* a Node was constructed from an argument list whose id is negative
C18_Witness ==
    /\ testResult = "constructed"
    /\ IntOf(testNodeArgs[1]) < 0

\* 1e-8, in the unit coordinates are held in
EPS == 10 ^ (TickDigits - 8)

\* C19: the line str(node) returns has one field per argument plus the constant 0 in
\* second place; its first field reads back as the id, and the fields after the second
\* read back as the coordinates given, each within 1e-8.
C19_NodeRoundTrip ==
    testStr # <<>> =>
        LET params == testStr[1].nums
        IN /\ Len(params) = Len(testNodeArgs) + 1
           /\ ParsesAsInt(params[1]) /\ ParseInt(params[1]) = IntOf(testNodeArgs[1])
           /\ ParsesAsInt(params[2]) /\ ParseInt(params[2]) = 0
           /\ \A d \in 1..(Len(testNodeArgs) - 1) :
                Abs(FloatOf(testNodeArgs[1 + d]) - ParseFloat(params[2 + d])) < EPS

\* a 3-D node was printed one of whose coordinates does not fit in eight decimals
C19_Witness ==
    /\ testStr # <<>>
    /\ Len(testNodeArgs) = 4
    /\ \E d \in 2..4 : FloatOf(testNodeArgs[d]) # ParseFloat(testStr[1].nums[d + 1])

-----------------------------------------------------------------------------
(* Properties of the configuration parser (SpecConfig) *)

\* the document loads and lacks no required key, at top level or in a nested object
NoKeyMissing(doc) ==
    /\ doc.jsonOk /\ doc.hasInput /\ doc.hasOutput
    /\ \A i \in 1..Len(doc.elsets) : "name" \in doc.elsets[i].keys
    /\ \A i \in 1..Len(doc.nsets) : "name" \in doc.nsets[i].keys
    /\ \A i \in 1..Len(doc.customInput) : CustomKeys \subseteq doc.customInput[i].keys

\* the document carries a key the code does not know, at top level or nested
SomeUnknownKey(doc) ==
    \/ doc.unknownKey
    \/ \E i \in 1..Len(doc.elsets) : ~(doc.elsets[i].keys \subseteq ElsetKeys)
    \/ \E i \in 1..Len(doc.nsets) : ~(doc.nsets[i].keys \subseteq NsetKeys)
    \/ \E i \in 1..Len(doc.customInput) : ~(doc.customInput[i].keys \subseteq CustomKeys)

\* C20: a configuration that lacks no required key is parsed without failure whatever
\* unknown keys it carries, top-level or nested: the run goes on, and the recognised keys
\* of every entry have taken effect.
C20_UnknownKeysIgnored ==
    (pc # "config" /\ NoKeyMissing(confFile)) =>
        /\ pc # "raised"
        /\ conf.centerMesh = confFile.centerMesh
        /\ Len(conf_elsets) = Len(confFile.elsets)
        /\ \A i \in 1..Len(conf_elsets) :
            /\ conf_elsets[i].name = confFile.elsets[i].name
            /\ conf_elsets[i].setMat = confFile.elsets[i].setMat
        /\ Len(conf_nsets) = Len(confFile.nsets)
        /\ \A i \in 1..Len(conf_nsets) :
            /\ conf_nsets[i].name = confFile.nsets[i].name
            /\ conf_nsets[i].setBoun = confFile.nsets[i].setBoun
        /\ Len(customInputs) = Len(confFile.customInput)
        /\ \A i \in 1..Len(customInputs) : customInputs[i].block = confFile.customInput[i].block

\* parsing failed on a configuration that lacks no required key and carries an unknown
\* key in a nested object
C20_Witness ==
    /\ pc = "raised"
    /\ NoKeyMissing(confFile)
    /\ SomeUnknownKey(confFile)
    /\ ~confFile.unknownKey

-----------------------------------------------------------------------------
(* Properties of the command-line run (SpecBuild) *)

\* the configuration file cannot be parsed, or lacks a required key
ConfigFails(doc) == ~doc.jsonOk \/ ~(doc.hasInput /\ doc.hasOutput)

\* C21: the run ends with exit code 0 when the deck was written, and with a non-zero
\* exit code when the configuration file cannot be parsed or lacks a required key; in
\* the failing cases no mesh is parsed and no output is written.
C21_ExitCodes ==
    exitCode # <<>> =>
        /\ pc = "done" => exitCode = <<0>>
        /\ ConfigFails(confFile) =>
            /\ exitCode[1] # 0
            /\ steps = <<>> /\ nodes = <<>> /\ elems = <<>>
            /\ ~outputOpened /\ output = <<>>

\* a run has ended on a configuration that parses as JSON and lacks a required key
C21_Witness ==
    /\ exitCode # <<>>
    /\ pc = "aborted"
    /\ confFile.jsonOk
    /\ ~(confFile.hasInput /\ confFile.hasOutput)

-----------------------------------------------------------------------------
(* Properties of the reader's diagnostics and bookkeeping (SpecParse) *)

\* a step that reads a section marker
MarkerRead == LineRead /\ line'.kind = "marker"

\* a step that reaches the end of the file
FileEnds == pstate = "reading" /\ pstate' = "returned"

\* the misaligned-element-data diagnostic is among the messages w
Misaligned(w) == \E i \in 1..Len(w) : w[i].kind = "unprocessed element input"

\* C23: integers pending in the element buffer are never discarded silently: when a
\* section marker is read, or the end of the file is reached, with a non-empty buffer,
\* the step does not fail, and by the time those integers are gone (the marker empties
\* the buffer, or the run completes) the misaligned-element-data diagnostic is emitted.
C23_PendingReported ==
    [][((MarkerRead \/ FileEnds) /\ elemInput # <<>>) =>
           /\ pstate' # "raised"
           /\ (elemInput' = <<>> \/ pstate' = "returned") => Misaligned(warnings')]_vars

\* the reader returned with integers pending and no diagnostic about them
C23_Witness ==
    /\ pstate = "returned"
    /\ elemInput # <<>>
    /\ ~Misaligned(warnings)

\* a step that reads a data line in READ_NODES mode from which a Node can be built
NodeRead == LineRead /\ readMode = READ_NODES /\ line'.kind = "data" /\ NodeOk(line'.toks)

DimensionMismatch(w) == \E i \in 1..Len(w) : w[i].kind = "node dimension mismatch"

\* C24: the first node read sets the model dimensionality without a diagnostic; a later
\* node whose dimensionality differs from the running value adds one mismatch diagnostic;
\* every node read is appended and makes its dimensionality the running value, and the
\* reader goes on. So nodes of one dimensionality, 2-D or 3-D, give no such diagnostic.
C24_DimensionLastWins ==
    [][NodeRead =>
          LET n == Node(line'.toks)
          IN /\ pstate' = "reading"
             /\ nodes' = Append(nodes, n)
             /\ nDim' = n.nDim
             /\ warnings' = (IF nodes # <<>> /\ nDim # n.nDim
                             THEN Append(warnings, Warning("node dimension mismatch", ""))
                             ELSE warnings)]_vars

\* one node was read, a 2-D one, and a dimensionality diagnostic was printed
C24_Witness ==
    /\ Len(nodes) = 1
    /\ nodes[1].nDim = 2
    /\ DimensionMismatch(warnings)

\* a step that reads a data line in UNKNOWN mode
IgnoredRead == LineRead /\ readMode = UNKNOWN /\ line'.kind = "data"

StrictlyIncreasing(s) == \A i, j \in 1..Len(s) : i < j => s[i] < s[j]

\* C25: a data line read in UNKNOWN mode leaves nodes, elements, node sets, element sets,
\* the pending buffer and the mode as they were and appends its own 1-based physical line
\* number to the ignored-line list; no other line read changes that list. So the list
\* grows by one entry per data line read in UNKNOWN mode and is strictly increasing.
C25_IgnoredLinesRecorded ==
    [][/\ IgnoredRead =>
            /\ UNCHANGED <<nodes, elems, nsets, elsets, elemInput, readMode>>
            /\ ignoredLines' = Append(ignoredLines, lineNumber')
       /\ ~IgnoredRead => ignoredLines' = ignoredLines
       /\ StrictlyIncreasing(ignoredLines')]_vars

\* two data lines were ignored, the second one on line 4 after another marker
C25_Witness ==
    /\ readMode = UNKNOWN
    /\ Len(ignoredLines) = 2
    /\ ignoredLines[2] = 4
    /\ line.kind = "data"

\* C26: every Element the reader has built records as its node count (numNodes) the
\* number of node references it stores, whatever empty tokens its data line held.
C26_NumNodesIsStoredCount ==
    \A i \in 1..Len(elems) : elems[i].numNodes = Len(elems[i].nodes)

\* an element was built from a data line that ends in an empty token, and its node count
\* became the model-wide count
C26_Witness ==
    /\ line.kind = "data"
    /\ readMode = READ_ELEMS
    /\ nodesPerElem = 0
    /\ pstate = "reading"
    /\ Last(line.toks) = ""
    /\ elems # <<>>
    /\ Last(elems).nodes # <<>>
    /\ numNodes = Len(Last(elems).nodes) + 1

====
